---- MODULE Spec2Model ----
(***************************************************************************)
(* Proposal state machine and vote-tally engine of the treasury_governance *)
(* ink! contract (src/lib.rs).  One action per contract message; the host  *)
(* block counter is advanced by a separate environment action.             *)
(***************************************************************************)
EXTENDS Integers, Sequences, FiniteSets, TLC

\* ---------------------------------------------------------------- bounds
\* identities that may call register_voter
NumAccounts == 12
\* identities that call vote and create_proposal
NumVoters == 2
\* successful create_proposal calls per behaviour
MaxProposals == 1
\* largest option index a vote call is made with
MaxOptionIndex == 3

Accounts == 1..NumAccounts
\* Accounts register in index order (see RegisterCallers): the voting
\* identities are the first account and the last NumVoters - 1 accounts, so
\* that votes are cast by registered and by unregistered identities.
Voters == {1} \cup ((NumAccounts - NumVoters + 2)..NumAccounts)

\* ------------------------------------------------------------ integer width
\* Ceiling of the u32 fields.  TLC integers are 32-bit signed, so the ceiling
\* is the largest value TLC represents; saturation is the same at any ceiling.
U32_MAX == 2147483647
\* The ceiling of the proposal id counter: u32::MAX narrowed so that a
\* behaviour reaches it. Spec and SpecMulti create fewer proposals than this,
\* SpecSat creates more.
ProposalIdMax == 3

\* mutant: the sum wraps around at the ceiling
wrapping_add(a, b) == IF a > U32_MAX - b THEN a - (U32_MAX - b) - 1 ELSE a + b
saturating_add(a, b) == IF a > U32_MAX - b THEN U32_MAX ELSE a + b
\* saturating_add on the proposal id counter
saturating_add_id(a, b) ==
    IF a > ProposalIdMax - b THEN ProposalIdMax ELSE a + b

\* ------------------------------------------------------------------- enums
ProposalType == {"Treasury", "Governance", "Technical", "Other"}
VotingPeriod == {"ThreeDays", "SevenDays", "FourteenDays", "ThirtyDays"}
QuorumThreshold == {"Five", "Ten", "Twenty", "TwentyFive"}
ExecutionDelay == {"Immediately", "OneDay", "TwoDays", "SevenDays"}
ProposalStatus == {"Active", "Passed", "Rejected", "Executed", "Expired"}
Error == {"ProposalNotFound", "ProposalNotActive", "VotingPeriodEnded",
          "AlreadyVoted", "NotAuthorized", "ProposalNotReadyForExecution",
          "InvalidProposal"}

VotingPeriod_to_blocks(vp) ==
    CASE vp = "ThreeDays"    -> 3 * 24 * 60 * 10
      [] vp = "SevenDays"    -> 7 * 24 * 60 * 10
      [] vp = "FourteenDays" -> 14 * 24 * 60 * 10
      [] vp = "ThirtyDays"   -> 30 * 24 * 60 * 10

\* mutant: the percentages of Ten and Twenty are exchanged
QuorumThreshold_to_percentage_swapped(q) ==
    CASE q = "Five"       -> 5
      [] q = "Ten"        -> 20
      [] q = "Twenty"     -> 10
      [] q = "TwentyFive" -> 25

QuorumThreshold_to_percentage(q) ==
    CASE q = "Five"       -> 5
      [] q = "Ten"        -> 10
      [] q = "Twenty"     -> 20
      [] q = "TwentyFive" -> 25

ExecutionDelay_to_blocks(d) ==
    CASE d = "Immediately" -> 0
      [] d = "OneDay"      -> 24 * 60 * 10
      [] d = "TwoDays"     -> 2 * 24 * 60 * 10
      [] d = "SevenDays"   -> 7 * 24 * 60 * 10

\* ------------------------------------------------------------------ inputs
\* values the calls of a behaviour are made with
VotingPeriodInputs == {"ThreeDays"}
QuorumInputs == {"Ten", "TwentyFive"}
ExecutionDelayInputs == {"Immediately", "OneDay"}
ProposalTypeInputs == {"Treasury"}
TitleInputs == {"title"}
DescriptionInputs == {"description"}
AllLabels == <<"Approve", "Reject", "Abstain", "O4", "O5", "O6", "O7",
               "O8", "O9", "O10", "O11">>
OptionLenInputs == {0, 2, 3, 11}
VotingOptionsOfLen(n) == [options |-> [k \in 1..n |-> AllLabels[k]]]
GovernanceParamsInputs ==
    [voting_period : VotingPeriodInputs,
     quorum_threshold : QuorumInputs,
     execution_delay : ExecutionDelayInputs]
ProposalIdInputs == 1..(MaxProposals + 1)
OptionIndexInputs == 0..MaxOptionIndex

\* ------------------------------------------------------------------- state
VARIABLES
    block,               \* self.env().block_number()
    next_proposal_id,
    proposals,           \* Mapping<u32, Proposal>: function on the stored ids
    votes,               \* Mapping<(u32, AccountId), Vote>
    proposal_ids,        \* Vec<u32>
    total_voters,
    registered_voters,   \* keys of Mapping<AccountId, bool>
    call,                \* the last message called and what it returned;
                         \* its arguments are those of the action taken
    events               \* events emitted by the last message

store == <<next_proposal_id, proposals, votes, proposal_ids, total_voters,
           registered_voters>>
vars == <<block, next_proposal_id, proposals, votes, proposal_ids,
          total_voters, registered_voters, call, events>>

\* Mapping::get(..).is_some()
HasProposal(pid) == pid \in DOMAIN proposals
HasVote(pid, voter) == <<pid, voter>> \in DOMAIN votes
\* Mapping::insert
Insert(m, k, v) == (k :> v) @@ m

Init ==
    /\ block = 0
    /\ next_proposal_id = 1
    /\ proposals = <<>>
    /\ votes = <<>>
    /\ proposal_ids = <<>>
    /\ total_voters = 0
    /\ registered_voters = {}
    /\ call = [op |-> "new", result |-> "Ok"]
    /\ events = <<>>

\* ------------------------------------------------------------ environment
\* heights at which the proposals' time checks change their answer
BlockTargets ==
    UNION {{proposals[i].voting_end, proposals[i].voting_end + 1,
            proposals[i].execution_time}
           : i \in DOMAIN proposals}

\* mutant: the passing of the voting window closes a proposal by itself
AdvanceBlock_expires(h) ==
    /\ h > block
    /\ block' = h
    /\ proposals' =
         [i \in DOMAIN proposals |->
            IF proposals[i].status = "Active" /\ h > proposals[i].voting_end
            THEN [proposals[i] EXCEPT !.status = "Expired"]
            ELSE proposals[i]]
    /\ call' = [op |-> "advance_block", result |-> "Ok"]
    /\ events' = <<>>
    /\ UNCHANGED <<next_proposal_id, votes, proposal_ids, total_voters,
                   registered_voters>>

AdvanceBlock(h) ==
    /\ h > block
    /\ block' = h
    /\ call' = [op |-> "advance_block", result |-> "Ok"]
    /\ events' = <<>>
    /\ UNCHANGED store

\* ---------------------------------------------------------- register_voter
\* Identities are compared for equality only, so first registrations are
\* made in index order; a repeated registration is made by the identity
\* registered last.
NextRegistrant ==
    {a \in Accounts \ registered_voters :
       \A b \in Accounts \ registered_voters : a <= b}

LastRegistrant ==
    {a \in registered_voters : \A b \in registered_voters : b <= a}

RegisterCallers == NextRegistrant \cup LastRegistrant

\* mutant: the registration is counted without the is_none test
RegisterVoter_always(caller) ==
    /\ registered_voters' = registered_voters \cup {caller}
    /\ total_voters' = saturating_add(total_voters, 1)
    /\ events' = <<[event |-> "VoterRegistered", voter |-> caller]>>
    /\ call' = [op |-> "register_voter", result |-> "Ok"]
    /\ UNCHANGED <<block, next_proposal_id, proposals, votes, proposal_ids>>

RegisterVoter(caller) ==
    /\ IF caller \notin registered_voters
       THEN /\ registered_voters' = registered_voters \cup {caller}
            /\ total_voters' = saturating_add(total_voters, 1)
            /\ events' = <<[event |-> "VoterRegistered", voter |-> caller]>>
       ELSE /\ UNCHANGED <<registered_voters, total_voters>>
            /\ events' = <<>>
    /\ call' = [op |-> "register_voter", result |-> "Ok"]
    /\ UNCHANGED <<block, next_proposal_id, proposals, votes, proposal_ids>>

\* --------------------------------------------------------- create_proposal
\* the validation of the voting options
\* mutant: ten options are refused
create_proposal_check_ge(voting_options) ==
    IF Len(voting_options.options) = 0 \/ Len(voting_options.options) >= 10
    THEN "InvalidProposal" ELSE "Ok"

create_proposal_check(voting_options) ==
    IF Len(voting_options.options) = 0 \/ Len(voting_options.options) > 10
    THEN "InvalidProposal" ELSE "Ok"

NewProposal(proposer, title, description, proposal_type, governance_params, voting_options) ==
    LET voting_end ==
            saturating_add(block,
                VotingPeriod_to_blocks(governance_params.voting_period))
        execution_time ==
            saturating_add(voting_end,
                ExecutionDelay_to_blocks(governance_params.execution_delay))
    IN  [id |-> next_proposal_id,
         title |-> title,
         description |-> description,
         proposal_type |-> proposal_type,
         governance_params |-> governance_params,
         voting_options |-> voting_options,
         proposer |-> proposer,
         created_at |-> block,
         voting_end |-> voting_end,
         execution_time |-> execution_time,
         status |-> "Active",
         vote_counts |-> [k \in 1..Len(voting_options.options) |-> 0],
         total_voters |-> 0]

\* mutant: the id counter advances before the options are validated
CreateProposal_counts_first(caller, title, description, proposal_type, governance_params, voting_options) ==
    LET res == create_proposal_check(voting_options)
        proposal_id == next_proposal_id
    IN  /\ next_proposal_id' = saturating_add_id(next_proposal_id, 1)
        /\ IF res = "Ok"
           THEN /\ proposals' = Insert(proposals, proposal_id,
                        NewProposal(caller, title, description, proposal_type,
                                    governance_params, voting_options))
                /\ proposal_ids' = Append(proposal_ids, proposal_id)
                /\ events' = <<[event |-> "ProposalCreated",
                                proposal_id |-> proposal_id,
                                proposer |-> caller, title |-> title]>>
                /\ call' = [op |-> "create_proposal", result |-> "Ok",
                            value |-> proposal_id]
           ELSE /\ UNCHANGED <<proposals, proposal_ids>>
                /\ events' = <<>>
                /\ call' = [op |-> "create_proposal", result |-> res,
                            value |-> 0]
        /\ UNCHANGED <<block, votes, total_voters, registered_voters>>

CreateProposal(caller, title, description, proposal_type, governance_params, voting_options) ==
    LET res == create_proposal_check(voting_options)
        proposal_id == next_proposal_id
    IN  /\ IF res = "Ok"
           THEN /\ proposals' = Insert(proposals, proposal_id,
                        NewProposal(caller, title, description, proposal_type,
                                    governance_params, voting_options))
                /\ proposal_ids' = Append(proposal_ids, proposal_id)
                /\ next_proposal_id' = saturating_add_id(next_proposal_id, 1)
                /\ events' = <<[event |-> "ProposalCreated",
                                proposal_id |-> proposal_id,
                                proposer |-> caller, title |-> title]>>
                /\ call' = [op |-> "create_proposal", result |-> "Ok",
                            value |-> proposal_id]
           ELSE /\ UNCHANGED <<proposals, proposal_ids, next_proposal_id>>
                /\ events' = <<>>
                /\ call' = [op |-> "create_proposal", result |-> res,
                            value |-> 0]
        /\ UNCHANGED <<block, votes, total_voters, registered_voters>>

\* -------------------------------------------------------------------- vote
\* mutant: the AlreadyVoted check is missing
vote_check_no_dup(voter, proposal_id, option_index) ==
    IF ~HasProposal(proposal_id) THEN "ProposalNotFound"
    ELSE LET proposal == proposals[proposal_id] IN
         IF proposal.status # "Active" THEN "ProposalNotActive"
         ELSE IF block > proposal.voting_end THEN "VotingPeriodEnded"
         ELSE IF option_index >= Len(proposal.voting_options.options)
              THEN "InvalidProposal"
         ELSE "Ok"

\* mutant: the option index is validated before the AlreadyVoted check
vote_check_index_first(voter, proposal_id, option_index) ==
    IF ~HasProposal(proposal_id) THEN "ProposalNotFound"
    ELSE LET proposal == proposals[proposal_id] IN
         IF proposal.status # "Active" THEN "ProposalNotActive"
         ELSE IF block > proposal.voting_end THEN "VotingPeriodEnded"
         ELSE IF option_index >= Len(proposal.voting_options.options)
              THEN "InvalidProposal"
         ELSE IF HasVote(proposal_id, voter) THEN "AlreadyVoted"
         ELSE "Ok"

\* mutant: the end block itself is no longer votable (>= for >)
vote_check_ge(voter, proposal_id, option_index) ==
    IF ~HasProposal(proposal_id) THEN "ProposalNotFound"
    ELSE LET proposal == proposals[proposal_id] IN
         IF proposal.status # "Active" THEN "ProposalNotActive"
         ELSE IF block >= proposal.voting_end THEN "VotingPeriodEnded"
         ELSE IF HasVote(proposal_id, voter) THEN "AlreadyVoted"
         ELSE IF option_index >= Len(proposal.voting_options.options)
              THEN "InvalidProposal"
         ELSE "Ok"

\* mutant: the voting window is tested before the status
vote_check_window_first(voter, proposal_id, option_index) ==
    IF ~HasProposal(proposal_id) THEN "ProposalNotFound"
    ELSE LET proposal == proposals[proposal_id] IN
         IF block > proposal.voting_end THEN "VotingPeriodEnded"
         ELSE IF proposal.status # "Active" THEN "ProposalNotActive"
         ELSE IF HasVote(proposal_id, voter) THEN "AlreadyVoted"
         ELSE IF option_index >= Len(proposal.voting_options.options)
              THEN "InvalidProposal"
         ELSE "Ok"

\* mutant: the voting window is not tested
vote_check_no_window(voter, proposal_id, option_index) ==
    IF ~HasProposal(proposal_id) THEN "ProposalNotFound"
    ELSE LET proposal == proposals[proposal_id] IN
         IF proposal.status # "Active" THEN "ProposalNotActive"
         ELSE IF HasVote(proposal_id, voter) THEN "AlreadyVoted"
         ELSE IF option_index >= Len(proposal.voting_options.options)
              THEN "InvalidProposal"
         ELSE "Ok"

\* the checks of vote, in the order of the code; "Ok" when all pass
vote_check(voter, proposal_id, option_index) ==
    IF ~HasProposal(proposal_id) THEN "ProposalNotFound"
    ELSE LET proposal == proposals[proposal_id] IN
         IF proposal.status # "Active" THEN "ProposalNotActive"
         ELSE IF block > proposal.voting_end THEN "VotingPeriodEnded"
         ELSE IF HasVote(proposal_id, voter) THEN "AlreadyVoted"
         ELSE IF option_index >= Len(proposal.voting_options.options)
              THEN "InvalidProposal"
         ELSE "Ok"

\* Vec indexing with a 0-based index
At(seq, i) == seq[i + 1]

\* mutant: a vote is counted for every option
Vote_all_counters(caller, proposal_id, option_index) ==
    LET res == vote_check(caller, proposal_id, option_index) IN
    /\ IF res = "Ok"
       THEN LET proposal == proposals[proposal_id]
                option_text == At(proposal.voting_options.options, option_index)
            IN  /\ votes' = Insert(votes, <<proposal_id, caller>>,
                        [voter |-> caller,
                         choice |-> [option_index |-> option_index,
                                     option_text |-> option_text],
                         timestamp |-> block, weight |-> 1])
                /\ proposals' = Insert(proposals, proposal_id,
                        [proposal EXCEPT
                           !.vote_counts =
                              [k \in DOMAIN proposal.vote_counts |->
                                 proposal.vote_counts[k] + 1],
                           !.total_voters = saturating_add(@, 1)])
                /\ events' = <<[event |-> "VoteCast",
                                proposal_id |-> proposal_id,
                                voter |-> caller,
                                option_index |-> option_index,
                                option_text |-> option_text,
                                weight |-> 1]>>
       ELSE /\ UNCHANGED <<votes, proposals>>
            /\ events' = <<>>
    /\ call' = [op |-> "vote", result |-> res]
    /\ UNCHANGED <<block, next_proposal_id, proposal_ids, total_voters,
                   registered_voters>>

\* mutant: the Vote record is stored before the option index is validated
Vote_partial(caller, proposal_id, option_index) ==
    LET res == vote_check(caller, proposal_id, option_index) IN
    /\ IF res = "Ok"
       THEN LET proposal == proposals[proposal_id]
                option_text == At(proposal.voting_options.options, option_index)
            IN  /\ votes' = Insert(votes, <<proposal_id, caller>>,
                        [voter |-> caller,
                         choice |-> [option_index |-> option_index,
                                     option_text |-> option_text],
                         timestamp |-> block, weight |-> 1])
                /\ proposals' = Insert(proposals, proposal_id,
                        [proposal EXCEPT
                           !.vote_counts[option_index + 1] = @ + 1,
                           !.total_voters = saturating_add(@, 1)])
                /\ events' = <<[event |-> "VoteCast",
                                proposal_id |-> proposal_id,
                                voter |-> caller,
                                option_index |-> option_index,
                                option_text |-> option_text,
                                weight |-> 1]>>
       ELSE IF res = "InvalidProposal"
       THEN /\ votes' = Insert(votes, <<proposal_id, caller>>,
                        [voter |-> caller,
                         choice |-> [option_index |-> option_index,
                                     option_text |-> ""],
                         timestamp |-> block, weight |-> 1])
            /\ UNCHANGED proposals
            /\ events' = <<>>
       ELSE /\ UNCHANGED <<votes, proposals>>
            /\ events' = <<>>
    /\ call' = [op |-> "vote", result |-> res]
    /\ UNCHANGED <<block, next_proposal_id, proposal_ids, total_voters,
                   registered_voters>>

Vote(caller, proposal_id, option_index) ==
    LET res == vote_check(caller, proposal_id, option_index) IN
    /\ IF res = "Ok"
       THEN LET proposal == proposals[proposal_id]
                option_text == At(proposal.voting_options.options, option_index)
                vote == [voter |-> caller,
                         choice |-> [option_index |-> option_index,
                                     option_text |-> option_text],
                         timestamp |-> block,
                         weight |-> 1]
                \* the u128 counter of an option cannot reach its ceiling:
                \* it counts distinct callers
                updated ==
                    [proposal EXCEPT
                       !.vote_counts[option_index + 1] = @ + 1,
                       !.total_voters = saturating_add(@, 1)]
            IN  /\ votes' = Insert(votes, <<proposal_id, caller>>, vote)
                /\ proposals' = Insert(proposals, proposal_id, updated)
                /\ events' = <<[event |-> "VoteCast",
                                proposal_id |-> proposal_id,
                                voter |-> caller,
                                option_index |-> option_index,
                                option_text |-> option_text,
                                weight |-> 1]>>
       ELSE /\ UNCHANGED <<votes, proposals>>
            /\ events' = <<>>
    /\ call' = [op |-> "vote", result |-> res]
    /\ UNCHANGED <<block, next_proposal_id, proposal_ids, total_voters,
                   registered_voters>>

\* ---------------------------------------------------- update_proposal_status
\* vote_counts.iter().sum()
RECURSIVE Sum(_)
Sum(seq) == IF seq = <<>> THEN 0 ELSE Head(seq) + Sum(Tail(seq))

\* (self.total_voters as u128).saturating_mul(quorum_percentage as u128) / 100
\* (a product of two u32 values never saturates a u128)
required_votes(proposal) ==
    (total_voters
       * QuorumThreshold_to_percentage(proposal.governance_params.quorum_threshold))
    \div 100

\* mutant: an option equal to the maximum replaces the winner (>= for >)
RECURSIVE WinnerLoop_ge(_, _, _)
WinnerLoop_ge(seq, max_votes, winning_count) ==
    IF seq = <<>> THEN <<max_votes, winning_count>>
    ELSE LET v == Head(seq) IN
         IF v >= max_votes THEN WinnerLoop_ge(Tail(seq), v, 1)
         ELSE WinnerLoop_ge(Tail(seq), max_votes, winning_count)

\* the winner loop: <<max_votes, winning_count>> after the options of seq
RECURSIVE WinnerLoop(_, _, _)
WinnerLoop(seq, max_votes, winning_count) ==
    IF seq = <<>> THEN <<max_votes, winning_count>>
    ELSE LET v == Head(seq) IN
         IF v > max_votes THEN WinnerLoop(Tail(seq), v, 1)
         ELSE IF v = max_votes /\ v > 0
              THEN WinnerLoop(Tail(seq), max_votes,
                              saturating_add(winning_count, 1))
         ELSE WinnerLoop(Tail(seq), max_votes, winning_count)

\* mutant: quorum is missed when the cast votes equal the required votes
tally_status_le(proposal) ==
    IF Sum(proposal.vote_counts) <= required_votes(proposal) THEN "Rejected"
    ELSE IF WinnerLoop(proposal.vote_counts, 0, 0)[2] > 1 THEN "Rejected"
    ELSE "Passed"

\* the status update_proposal_status writes once both early returns are passed
tally_status(proposal) ==
    IF Sum(proposal.vote_counts) < required_votes(proposal) THEN "Rejected"
    ELSE IF WinnerLoop(proposal.vote_counts, 0, 0)[2] > 1 THEN "Rejected"
    ELSE "Passed"

\* mutant: the tally is run at the end block itself (< for <=)
update_due_lt(proposal) ==
    /\ proposal.status = "Active"
    /\ ~(block < proposal.voting_end)

\* the early returns of update_proposal_status: TRUE when the tally is run
update_due(proposal) ==
    /\ proposal.status = "Active"
    /\ ~(block <= proposal.voting_end)

UpdateProposalStatus(proposal_id) ==
    /\ IF ~HasProposal(proposal_id)
       THEN /\ UNCHANGED proposals
            /\ call' = [op |-> "update_proposal_status",
                        result |-> "ProposalNotFound"]
       ELSE /\ IF update_due(proposals[proposal_id])
               THEN proposals' = Insert(proposals, proposal_id,
                        [proposals[proposal_id] EXCEPT
                           !.status = tally_status(proposals[proposal_id])])
               ELSE UNCHANGED proposals
            /\ call' = [op |-> "update_proposal_status", result |-> "Ok"]
    /\ events' = <<>>
    /\ UNCHANGED <<block, next_proposal_id, votes, proposal_ids, total_voters,
                   registered_voters>>

\* --------------------------------------------------------- execute_proposal
\* mutant: the status is not checked
execute_check_no_status(proposal_id) ==
    IF ~HasProposal(proposal_id) THEN "ProposalNotFound"
    ELSE IF block < proposals[proposal_id].execution_time
         THEN "ProposalNotReadyForExecution"
    ELSE "Ok"

\* mutant: execution is refused at executionTime itself (<= for <)
execute_check_le(proposal_id) ==
    IF ~HasProposal(proposal_id) THEN "ProposalNotFound"
    ELSE IF proposals[proposal_id].status # "Passed"
         THEN "ProposalNotReadyForExecution"
    ELSE IF block <= proposals[proposal_id].execution_time
         THEN "ProposalNotReadyForExecution"
    ELSE "Ok"

\* the checks of execute_proposal, in the order of the code
execute_check(proposal_id) ==
    IF ~HasProposal(proposal_id) THEN "ProposalNotFound"
    ELSE IF proposals[proposal_id].status # "Passed"
         THEN "ProposalNotReadyForExecution"
    ELSE IF block < proposals[proposal_id].execution_time
         THEN "ProposalNotReadyForExecution"
    ELSE "Ok"

\* mutant: the execution writes its own height into execution_time
ExecuteProposal_stamps(proposal_id) ==
    LET res == execute_check(proposal_id) IN
    /\ IF res = "Ok"
       THEN /\ proposals' = Insert(proposals, proposal_id,
                    [proposals[proposal_id] EXCEPT !.status = "Executed",
                                                   !.execution_time = block])
            /\ events' = <<[event |-> "ProposalExecuted",
                            proposal_id |-> proposal_id,
                            status |-> "Executed"]>>
       ELSE /\ UNCHANGED proposals
            /\ events' = <<>>
    /\ call' = [op |-> "execute_proposal", result |-> res]
    /\ UNCHANGED <<block, next_proposal_id, votes, proposal_ids, total_voters,
                   registered_voters>>

ExecuteProposal(proposal_id) ==
    LET res == execute_check(proposal_id) IN
    /\ IF res = "Ok"
       THEN /\ proposals' = Insert(proposals, proposal_id,
                    [proposals[proposal_id] EXCEPT !.status = "Executed"])
            /\ events' = <<[event |-> "ProposalExecuted",
                            proposal_id |-> proposal_id,
                            status |-> "Executed"]>>
       ELSE /\ UNCHANGED proposals
            /\ events' = <<>>
    /\ call' = [op |-> "execute_proposal", result |-> res]
    /\ UNCHANGED <<block, next_proposal_id, votes, proposal_ids, total_voters,
                   registered_voters>>

\* ------------------------------------------------------------------ queries
\* mutant: quorum needs more than the required votes (> for >=)
has_reached_quorum_gt(proposal_id) ==
    IF HasProposal(proposal_id)
    THEN Sum(proposals[proposal_id].vote_counts)
            > required_votes(proposals[proposal_id])
    ELSE FALSE

has_reached_quorum(proposal_id) ==
    IF HasProposal(proposal_id)
    THEN Sum(proposals[proposal_id].vote_counts)
            >= required_votes(proposals[proposal_id])
    ELSE FALSE

HasReachedQuorum(proposal_id) ==
    /\ call' = [op |-> "has_reached_quorum",
                result |-> has_reached_quorum(proposal_id)]
    /\ events' = <<>>
    /\ UNCHANGED <<block, store>>

\* Option<T>: None is the empty sequence, Some(x) the sequence of x alone
None == <<>>
Some(x) == <<x>>

get_proposal(proposal_id) ==
    IF HasProposal(proposal_id) THEN Some(proposals[proposal_id]) ELSE None

get_all_proposal_ids == proposal_ids

get_user_vote(proposal_id, user) ==
    IF HasVote(proposal_id, user) THEN Some(votes[<<proposal_id, user>>])
    ELSE None

get_total_voters == total_voters

\* mutant: a missing proposal is answered with empty results
get_proposal_results_default(proposal_id) ==
    IF HasProposal(proposal_id)
    THEN Some(<<proposals[proposal_id].vote_counts,
                has_reached_quorum(proposal_id)>>)
    ELSE Some(<<<<>>, FALSE>>)

get_proposal_results(proposal_id) ==
    IF HasProposal(proposal_id)
    THEN Some(<<proposals[proposal_id].vote_counts,
                has_reached_quorum(proposal_id)>>)
    ELSE None

get_voting_options(proposal_id) ==
    IF HasProposal(proposal_id)
    THEN Some(proposals[proposal_id].voting_options.options)
    ELSE None

get_detailed_results(proposal_id) ==
    IF HasProposal(proposal_id)
    THEN LET proposal == proposals[proposal_id] IN
         Some([k \in 1..Len(proposal.voting_options.options) |->
                 <<proposal.voting_options.options[k],
                   proposal.vote_counts[k]>>])
    ELSE None

\* mutant: the last option of the largest count is reported (>= for >)
RECURSIVE WinningIndexLoop_ge(_, _, _, _)
WinningIndexLoop_ge(vote_counts, i, max_votes, winning_index) ==
    IF i >= Len(vote_counts) THEN <<max_votes, winning_index>>
    ELSE IF At(vote_counts, i) >= max_votes
         THEN WinningIndexLoop_ge(vote_counts, i + 1, At(vote_counts, i), i)
    ELSE WinningIndexLoop_ge(vote_counts, i + 1, max_votes, winning_index)

\* the loop of get_winning_option from the 0-based index i on:
\* <<max_votes, winning_index>>
RECURSIVE WinningIndexLoop(_, _, _, _)
WinningIndexLoop(vote_counts, i, max_votes, winning_index) ==
    IF i >= Len(vote_counts) THEN <<max_votes, winning_index>>
    ELSE IF At(vote_counts, i) > max_votes
         THEN WinningIndexLoop(vote_counts, i + 1, At(vote_counts, i), i)
    ELSE WinningIndexLoop(vote_counts, i + 1, max_votes, winning_index)

get_winning_option(proposal_id) ==
    IF HasProposal(proposal_id)
    THEN LET proposal == proposals[proposal_id]
             found == WinningIndexLoop(proposal.vote_counts, 0, 0, 0)
         IN  IF found[1] > 0
             THEN Some(<<At(proposal.voting_options.options, found[2]),
                         found[1]>>)
             ELSE None
    ELSE None

\* the loop of get_stats over proposal_ids: <<active, executed>>
RECURSIVE StatsLoop(_, _, _)
StatsLoop(ids, active, executed) ==
    IF ids = <<>> THEN <<active, executed>>
    ELSE IF ~HasProposal(Head(ids)) THEN StatsLoop(Tail(ids), active, executed)
    ELSE IF proposals[Head(ids)].status = "Active"
         THEN StatsLoop(Tail(ids), saturating_add(active, 1), executed)
    ELSE IF proposals[Head(ids)].status = "Executed"
         THEN StatsLoop(Tail(ids), active, saturating_add(executed, 1))
    ELSE StatsLoop(Tail(ids), active, executed)

get_stats ==
    LET counted == StatsLoop(proposal_ids, 0, 0)
    IN  <<Len(proposal_ids), counted[1], counted[2]>>

\* a &self message: it returns its value and writes nothing
Query(op, value) ==
    /\ call' = [op |-> op, result |-> value]
    /\ events' = <<>>
    /\ UNCHANGED <<block, store>>

GetProposal(proposal_id) == Query("get_proposal", get_proposal(proposal_id))
GetAllProposalIds == Query("get_all_proposal_ids", get_all_proposal_ids)
GetUserVote(proposal_id, user) == Query("get_user_vote", get_user_vote(proposal_id, user))
GetTotalVoters == Query("get_total_voters", get_total_voters)
GetProposalResults(proposal_id) == Query("get_proposal_results", get_proposal_results(proposal_id))
GetVotingOptions(proposal_id) == Query("get_voting_options", get_voting_options(proposal_id))
GetDetailedResults(proposal_id) == Query("get_detailed_results", get_detailed_results(proposal_id))
GetWinningOption(proposal_id) == Query("get_winning_option", get_winning_option(proposal_id))
GetStats == Query("get_stats", get_stats)

\* ----------------------------------------------------------- specification
\* at most MaxProposals calls of create_proposal succeed in a behaviour
CreateAllowed(voting_options) ==
    create_proposal_check(voting_options) = "Ok"
       => Len(proposal_ids) < MaxProposals

Next ==
    \/ \E h \in BlockTargets : AdvanceBlock(h)
    \/ \E caller \in RegisterCallers : RegisterVoter(caller)
    \/ \E caller \in Voters, title \in TitleInputs,
          description \in DescriptionInputs,
          proposal_type \in ProposalTypeInputs,
          governance_params \in GovernanceParamsInputs,
          n \in OptionLenInputs :
            /\ CreateAllowed(VotingOptionsOfLen(n))
            /\ CreateProposal(caller, title, description, proposal_type,
                              governance_params, VotingOptionsOfLen(n))
    \/ \E caller \in Voters, proposal_id \in ProposalIdInputs,
          option_index \in OptionIndexInputs :
            Vote(caller, proposal_id, option_index)
    \/ \E proposal_id \in ProposalIdInputs : UpdateProposalStatus(proposal_id)
    \/ \E proposal_id \in ProposalIdInputs : ExecuteProposal(proposal_id)
    \/ \E proposal_id \in ProposalIdInputs : HasReachedQuorum(proposal_id)

Spec == Init /\ [][Next]_vars

\* ------------------------------------------ specification of two proposals
\* successful create_proposal calls per behaviour of SpecMulti
MultiMaxProposals == 2
\* identities that register in a behaviour of SpecMulti
MultiAccounts == 1
\* largest 0-based option index voted for in SpecMulti
MultiMaxOptionIndex == 1

\* the identity that creates proposals, votes and is asked about
MultiVoters == {1}
MultiProposalIdInputs == 1..(MultiMaxProposals + 1)
MultiOptionLenInputs == {0, 1, 10, 11}
MultiOptionIndexInputs == 0..MultiMaxOptionIndex
MultiGovernanceParams ==
    [voting_period |-> "ThreeDays", quorum_threshold |-> "TwentyFive",
     execution_delay |-> "OneDay"]

MultiCreateAllowed(voting_options) ==
    create_proposal_check(voting_options) = "Ok"
       => Len(proposal_ids) < MultiMaxProposals

NextMulti ==
    \/ \E h \in BlockTargets : AdvanceBlock(h)
    \/ \E caller \in RegisterCallers \cap (1..MultiAccounts) :
          RegisterVoter(caller)
    \/ \E caller \in MultiVoters, title \in TitleInputs,
          description \in DescriptionInputs,
          proposal_type \in ProposalTypeInputs,
          n \in MultiOptionLenInputs :
            /\ MultiCreateAllowed(VotingOptionsOfLen(n))
            /\ CreateProposal(caller, title, description, proposal_type,
                              MultiGovernanceParams, VotingOptionsOfLen(n))
    \/ \E caller \in MultiVoters, proposal_id \in MultiProposalIdInputs,
          option_index \in MultiOptionIndexInputs :
            Vote(caller, proposal_id, option_index)
    \/ \E proposal_id \in MultiProposalIdInputs :
          UpdateProposalStatus(proposal_id)
    \/ \E proposal_id \in MultiProposalIdInputs : ExecuteProposal(proposal_id)
    \/ \E proposal_id \in MultiProposalIdInputs : HasReachedQuorum(proposal_id)
    \/ \E proposal_id \in MultiProposalIdInputs : GetProposal(proposal_id)
    \/ GetAllProposalIds
    \/ \E proposal_id \in MultiProposalIdInputs, user \in MultiVoters :
          GetUserVote(proposal_id, user)
    \/ GetTotalVoters
    \/ \E proposal_id \in MultiProposalIdInputs :
          GetProposalResults(proposal_id)
    \/ \E proposal_id \in MultiProposalIdInputs : GetVotingOptions(proposal_id)
    \/ \E proposal_id \in MultiProposalIdInputs :
          GetDetailedResults(proposal_id)
    \/ \E proposal_id \in MultiProposalIdInputs : GetWinningOption(proposal_id)
    \/ GetStats

SpecMulti == Init /\ [][NextMulti]_vars

\* ------------------------------------- specification of the integer ceilings
\* successful create_proposal calls per behaviour of SpecSat: one more than
\* the id counter can tell apart
SatMaxProposals == ProposalIdMax + 1
SatVoters == {1}
SatOptionIndexInputs == {0, 1}
SatOptionLenInputs == {0, 2}
SatGovernanceParams ==
    [voting_period |-> "ThreeDays", quorum_threshold |-> "Ten",
     execution_delay |-> "OneDay"]
\* the messages about a stored proposal are sent about the last id
SatProposalIdInputs == {ProposalIdMax}

\* heights from which voting_end, execution_time or both reach the ceiling
FarHeights ==
    {U32_MAX - VotingPeriod_to_blocks("ThreeDays")
             - ExecutionDelay_to_blocks("OneDay"),
     U32_MAX - VotingPeriod_to_blocks("ThreeDays"),
     U32_MAX}

\* BlockTargets without the height after the ceiling, and the far heights
SatBlockTargets ==
    FarHeights \cup
    UNION {{proposals[i].voting_end, proposals[i].execution_time} \cup
           (IF proposals[i].voting_end < U32_MAX
            THEN {proposals[i].voting_end + 1} ELSE {})
           : i \in DOMAIN proposals}

SatCreateAllowed(voting_options) ==
    create_proposal_check(voting_options) = "Ok"
       => Len(proposal_ids) < SatMaxProposals

NextSat ==
    \/ \E h \in SatBlockTargets : AdvanceBlock(h)
    \/ \E caller \in SatVoters : RegisterVoter(caller)
    \/ \E caller \in SatVoters, title \in TitleInputs,
          description \in DescriptionInputs,
          proposal_type \in ProposalTypeInputs,
          n \in SatOptionLenInputs :
            /\ SatCreateAllowed(VotingOptionsOfLen(n))
            /\ CreateProposal(caller, title, description, proposal_type,
                              SatGovernanceParams, VotingOptionsOfLen(n))
    \/ \E caller \in SatVoters, proposal_id \in SatProposalIdInputs,
          option_index \in SatOptionIndexInputs :
            Vote(caller, proposal_id, option_index)
    \/ \E proposal_id \in SatProposalIdInputs :
          UpdateProposalStatus(proposal_id)
    \/ \E proposal_id \in SatProposalIdInputs : ExecuteProposal(proposal_id)
    \/ GetAllProposalIds
    \/ GetStats

SpecSat == Init /\ [][NextSat]_vars

\* ------------------------------------ specification of the winner query
\* identities that register in a behaviour of SpecWinner
WinnerAccounts == 2
WinnerOptionLenInputs == {0, 2, 3}
WinnerGovernanceParams ==
    [voting_period |-> "ThreeDays", quorum_threshold |-> "TwentyFive",
     execution_delay |-> "OneDay"]

NextWinner ==
    \/ \E h \in BlockTargets : AdvanceBlock(h)
    \/ \E caller \in RegisterCallers \cap (1..WinnerAccounts) :
          RegisterVoter(caller)
    \/ \E caller \in Voters, title \in TitleInputs,
          description \in DescriptionInputs,
          proposal_type \in ProposalTypeInputs,
          n \in WinnerOptionLenInputs :
            /\ CreateAllowed(VotingOptionsOfLen(n))
            /\ CreateProposal(caller, title, description, proposal_type,
                              WinnerGovernanceParams, VotingOptionsOfLen(n))
    \/ \E caller \in Voters, proposal_id \in ProposalIdInputs,
          option_index \in OptionIndexInputs :
            Vote(caller, proposal_id, option_index)
    \/ \E proposal_id \in ProposalIdInputs : UpdateProposalStatus(proposal_id)
    \/ \E proposal_id \in ProposalIdInputs : ExecuteProposal(proposal_id)
    \/ \E proposal_id \in ProposalIdInputs : GetWinningOption(proposal_id)

SpecWinner == Init /\ [][NextWinner]_vars

\* ------------------------------------------- specification with fairness
LiveVoters == {1}
LiveOptionLenInputs == {0, 2}
LiveOptionIndexInputs == {0, 1}
LiveGovernanceParams ==
    [voting_period |-> "ThreeDays", quorum_threshold |-> "Ten",
     execution_delay |-> "OneDay"]

NextLive ==
    \/ \E h \in SatBlockTargets : AdvanceBlock(h)
    \/ \E caller \in LiveVoters : RegisterVoter(caller)
    \/ \E caller \in LiveVoters, title \in TitleInputs,
          description \in DescriptionInputs,
          proposal_type \in ProposalTypeInputs,
          n \in LiveOptionLenInputs :
            /\ CreateAllowed(VotingOptionsOfLen(n))
            /\ CreateProposal(caller, title, description, proposal_type,
                              LiveGovernanceParams, VotingOptionsOfLen(n))
    \/ \E caller \in LiveVoters, proposal_id \in ProposalIdInputs,
          option_index \in LiveOptionIndexInputs :
            Vote(caller, proposal_id, option_index)
    \/ \E proposal_id \in ProposalIdInputs : UpdateProposalStatus(proposal_id)
    \/ \E proposal_id \in ProposalIdInputs : ExecuteProposal(proposal_id)

\* The block number of the chain grows without end, and the two messages
\* are sent again and again about every proposal id.
LiveFairness ==
    /\ WF_vars(\E h \in SatBlockTargets : AdvanceBlock(h))
    /\ \A proposal_id \in ProposalIdInputs :
          /\ WF_vars(UpdateProposalStatus(proposal_id))
          /\ WF_vars(ExecuteProposal(proposal_id))

SpecLive == Init /\ [][NextLive]_vars /\ LiveFairness

\* ================================================================== claims
StatusOf(p) == proposals[p].status
VotingEndOf(p) == proposals[p].voting_end
QuorumOf(p) ==
    QuorumThreshold_to_percentage(proposals[p].governance_params.quorum_threshold)
CastVotes(p) == Sum(proposals[p].vote_counts)
NumOptions(p) == Len(proposals[p].voting_options.options)
\* the largest count of a count vector and the options that attain it
MaxCount(vc) == CHOOSE m \in {vc[k] : k \in DOMAIN vc} \cup {0} :
                  \A k \in DOMAIN vc : vc[k] <= m
AtMax(vc) == {k \in DOMAIN vc : vc[k] = MaxCount(vc)}
Tied(vc) == MaxCount(vc) > 0 /\ Cardinality(AtMax(vc)) >= 2
\* update_proposal_status(p) is past both early returns
Closed(p) == HasProposal(p) /\ StatusOf(p) = "Active" /\ block > VotingEndOf(p)

\* C1: a proposal's status changes only along Active->Passed, Active->Rejected
\* or Passed->Executed; a proposal is created Active, is never removed, and
\* never has status Expired.
C1_StatusTransitions ==
    [][/\ \A p \in DOMAIN proposals :
            /\ p \in DOMAIN proposals'
            /\ \/ proposals'[p].status = StatusOf(p)
               \/ <<StatusOf(p), proposals'[p].status>> \in
                     {<<"Active", "Passed">>, <<"Active", "Rejected">>,
                      <<"Passed", "Executed">>}
       /\ \A p \in DOMAIN proposals' \ DOMAIN proposals :
            proposals'[p].status = "Active"
       /\ \A p \in DOMAIN proposals' : proposals'[p].status # "Expired"]_vars

C1_Witness ==
    /\ call.op = "execute_proposal"
    /\ call.result = "Ok"
    /\ \E p \in DOMAIN proposals : StatusOf(p) = "Executed"

\* C2: a stored Vote record is never overwritten or removed, and a vote call
\* by v on p succeeds only when no record for (p, v) exists and then stores
\* one; so at most one vote call per pair succeeds.
C2_OneVotePerPair ==
    [][/\ \A k \in DOMAIN votes : k \in DOMAIN votes' /\ votes'[k] = votes[k]
       /\ \A v \in Voters, p \in ProposalIdInputs, i \in OptionIndexInputs :
            (call'.op = "vote" /\ call'.result = "Ok" /\ Vote(v, p, i))
               => (~HasVote(p, v) /\ <<p, v>> \in DOMAIN votes')]_vars

C2_Witness ==
    /\ call.op = "vote"
    /\ call.result = "AlreadyVoted"
    /\ \E k \in DOMAIN votes : votes[k].timestamp < block

\* C3 as stated: once v has voted on p, every later vote call by v on p fails
\* with AlreadyVoted.
C3_Original ==
    [][\A v \in Voters, p \in ProposalIdInputs, i \in OptionIndexInputs :
          (call'.op = "vote" /\ HasVote(p, v) /\ Vote(v, p, i))
             => call'.result = "AlreadyVoted"]_vars

\* C3 amended: once v has voted on p, every later vote call by v on p fails,
\* whatever the option index: with ProposalNotActive when the status is not
\* Active, else with VotingPeriodEnded when the height is > votingEnd, else
\* with AlreadyVoted.
C3_RevoteFails ==
    [][\A v \in Voters, p \in ProposalIdInputs, i \in OptionIndexInputs :
          (call'.op = "vote" /\ HasVote(p, v) /\ Vote(v, p, i)) =>
             /\ UNCHANGED store
             /\ call'.result =
                  IF StatusOf(p) # "Active" THEN "ProposalNotActive"
                  ELSE IF block > VotingEndOf(p) THEN "VotingPeriodEnded"
                  ELSE "AlreadyVoted"]_vars

C3_Witness ==
    /\ call.op = "vote"
    /\ call.result = "AlreadyVoted"
    /\ \A v \in Voters : \E p \in DOMAIN proposals : HasVote(p, v)

\* C4: on an Active proposal, a vote by a voter without a vote on it, with an
\* in-range index, succeeds at every height <= votingEnd and fails with
\* VotingPeriodEnded at every height > votingEnd.
C4_VotingWindow ==
    [][\A v \in Voters, p \in ProposalIdInputs, i \in OptionIndexInputs :
          (/\ call'.op = "vote"
           /\ HasProposal(p)
           /\ StatusOf(p) = "Active"
           /\ ~HasVote(p, v)
           /\ i < NumOptions(p)
           /\ Vote(v, p, i))
          => call'.result = IF block <= VotingEndOf(p) THEN "Ok"
                            ELSE "VotingPeriodEnded"]_vars

C4_Witness ==
    /\ call.op = "vote"
    /\ call.result = "VotingPeriodEnded"
    /\ \E p \in DOMAIN proposals :
         /\ block = VotingEndOf(p) + 1
         /\ \E v \in Voters : /\ HasVote(p, v)
                              /\ votes[<<p, v>>].timestamp = VotingEndOf(p)

\* C5: execute_proposal on an existing proposal succeeds and sets Executed
\* exactly when the status is Passed and the height is >= executionTime;
\* otherwise it fails with ProposalNotReadyForExecution, status unchanged.
C5_ExecutionGate ==
    [][\A p \in ProposalIdInputs :
          (call'.op = "execute_proposal" /\ HasProposal(p)
             /\ ExecuteProposal(p)) =>
             IF StatusOf(p) = "Passed" /\ block >= proposals[p].execution_time
             THEN /\ call'.result = "Ok"
                  /\ proposals'[p].status = "Executed"
             ELSE /\ call'.result = "ProposalNotReadyForExecution"
                  /\ proposals'[p].status = StatusOf(p)]_vars

C5_Witness ==
    /\ call.op = "execute_proposal"
    /\ call.result = "ProposalNotReadyForExecution"
    /\ \E p \in DOMAIN proposals :
         /\ StatusOf(p) = "Passed"
         /\ block < proposals[p].execution_time

\* C6: update_proposal_status on an Active proposal at a height > votingEnd
\* sets Rejected if sum(voteCounts) < floor(total_voters * quorum / 100) or if
\* two or more options attain a maximum > 0, and Passed otherwise.
C6_TallyOutcome ==
    [][\A p \in ProposalIdInputs :
          (call'.op = "update_proposal_status" /\ Closed(p)
             /\ UpdateProposalStatus(p)) =>
             proposals'[p].status =
                IF \/ CastVotes(p) < (total_voters * QuorumOf(p)) \div 100
                   \/ Tied(proposals[p].vote_counts)
                THEN "Rejected" ELSE "Passed"]_vars

C6_Witness ==
    /\ call.op = "update_proposal_status"
    /\ \E p \in DOMAIN proposals :
         /\ StatusOf(p) = "Rejected"
         /\ CastVotes(p) = 1
         /\ (total_voters * QuorumOf(p)) \div 100 = 2

\* C7: when two or more options share the same nonzero maximum count,
\* update_proposal_status on the Active proposal after votingEnd sets
\* Rejected, wherever the tied options are and whether or not quorum is met.
C7_TieRejected ==
    [][\A p \in ProposalIdInputs :
          (/\ call'.op = "update_proposal_status"
           /\ Closed(p)
           /\ UpdateProposalStatus(p)
           /\ \E a, b \in DOMAIN proposals[p].vote_counts :
                /\ a # b
                /\ proposals[p].vote_counts[a] = proposals[p].vote_counts[b]
                /\ proposals[p].vote_counts[a] > 0
                /\ \A k \in DOMAIN proposals[p].vote_counts :
                     proposals[p].vote_counts[k] <= proposals[p].vote_counts[a])
          => proposals'[p].status = "Rejected"]_vars

C7_Witness ==
    /\ call.op = "update_proposal_status"
    /\ \E p \in DOMAIN proposals :
         /\ StatusOf(p) = "Rejected"
         /\ proposals[p].vote_counts = <<1, 0, 1>>
         /\ CastVotes(p) >= (total_voters * QuorumOf(p)) \div 100

\* C8: update_proposal_status on an existing proposal whose status is not
\* Active or whose votingEnd is >= the height returns success and changes
\* nothing; on a missing proposal it fails with ProposalNotFound.
C8_UpdateNoOp ==
    [][\A p \in ProposalIdInputs :
          (call'.op = "update_proposal_status" /\ UpdateProposalStatus(p)) =>
             IF ~HasProposal(p)
             THEN call'.result = "ProposalNotFound" /\ UNCHANGED store
             ELSE (StatusOf(p) # "Active" \/ block <= VotingEndOf(p)) =>
                     /\ call'.result = "Ok"
                     /\ UNCHANGED <<block, store>>
                     /\ events' = <<>>]_vars

C8_Witness ==
    /\ call.op = "update_proposal_status"
    /\ call.result = "Ok"
    /\ \E p \in DOMAIN proposals :
         /\ StatusOf(p) = "Active"
         /\ block = VotingEndOf(p)
         /\ CastVotes(p) > 0

\* C9: a call of create_proposal, vote, update_proposal_status or
\* execute_proposal that returns an error changes nothing of the contract
\* state and emits no event.
C9_ErrorsChangeNothing ==
    [][(/\ call'.op \in {"create_proposal", "vote", "update_proposal_status",
                         "execute_proposal"}
        /\ call'.result \in Error)
       => (UNCHANGED <<block, store>> /\ events' = <<>>)]_vars

C9_Witness ==
    /\ call.op = "vote"
    /\ call.result = "InvalidProposal"
    /\ \E p \in DOMAIN proposals : StatusOf(p) = "Active" /\ CastVotes(p) > 0

\* C10: has_reached_quorum(p) holds exactly when sum(voteCounts) reaches
\* floor(total_voters * quorum / 100), is false for a missing id, decides the
\* quorum branch of update_proposal_status, and with 10 registered voters and
\* a 10% quorum is false with 0 votes and true with 1 vote.
C10_Quorum ==
    [][/\ \A p \in ProposalIdInputs :
            /\ ~HasProposal(p) => ~has_reached_quorum(p)
            /\ HasProposal(p) =>
                 /\ has_reached_quorum(p) <=>
                       total_voters * QuorumOf(p) < 100 * (CastVotes(p) + 1)
                 /\ (total_voters = 10 /\ QuorumOf(p) = 10) =>
                       /\ CastVotes(p) = 0 => ~has_reached_quorum(p)
                       /\ CastVotes(p) = 1 => has_reached_quorum(p)
            /\ (call'.op = "update_proposal_status" /\ Closed(p)
                  /\ UpdateProposalStatus(p)) =>
                 /\ ~has_reached_quorum(p) => proposals'[p].status = "Rejected"
                 /\ proposals'[p].status = "Passed" => has_reached_quorum(p)
            /\ (call'.op = "has_reached_quorum" /\ HasReachedQuorum(p))
                 => call'.result = has_reached_quorum(p)
      ]_vars

C10_Witness ==
    /\ call.op = "has_reached_quorum"
    /\ call.result = TRUE
    /\ total_voters = 10
    /\ \E p \in DOMAIN proposals : QuorumOf(p) = 10 /\ CastVotes(p) = 1

\* C11: total_voters is the number of registered identities; a first
\* registration adds the caller, counts it once and emits VoterRegistered; a
\* repeated registration changes nothing and emits no event.
C11_RegisterIdempotent ==
    [][/\ total_voters = Cardinality(registered_voters)
       /\ total_voters' = Cardinality(registered_voters')
       /\ \A c \in Accounts :
            (call'.op = "register_voter" /\ RegisterVoter(c)) =>
               IF c \in registered_voters
               THEN UNCHANGED <<block, store>> /\ events' = <<>>
               ELSE /\ registered_voters' = registered_voters \cup {c}
                    /\ total_voters' = total_voters + 1
                    /\ events' = <<[event |-> "VoterRegistered",
                                    voter |-> c]>>]_vars

C11_Witness ==
    /\ call.op = "register_voter"
    /\ events = <<>>
    /\ total_voters = 1
    /\ registered_voters = {1}

\* C17 as stated: a proposal becomes Passed only if the registered voters
\* that voted on it number at least floor(total_voters * quorum / 100).
C17_Original ==
    [][\A p \in ProposalIdInputs :
          (/\ call'.op = "update_proposal_status"
           /\ Closed(p)
           /\ UpdateProposalStatus(p)
           /\ proposals'[p].status = "Passed")
          => Cardinality({v \in registered_voters : HasVote(p, v)})
                >= (total_voters * QuorumOf(p)) \div 100]_vars

\* the run of C20: three options, 3-day period, 10% quorum, 1-day delay, 10
\* registered voters and one vote, for the first option, at creation height
EndToEnd(p) ==
    /\ HasProposal(p)
    /\ NumOptions(p) = 3
    /\ proposals[p].governance_params =
          [voting_period |-> "ThreeDays", quorum_threshold |-> "Ten",
           execution_delay |-> "OneDay"]
    /\ total_voters = 10
    /\ proposals[p].vote_counts = <<1, 0, 0>>
    /\ \E v \in Voters : /\ HasVote(p, v)
                         /\ votes[<<p, v>>].timestamp = proposals[p].created_at

\* C20: in that run update_proposal_status at a height > votingEnd sets
\* Passed, and execute_proposal at a height >= executionTime then succeeds
\* and sets Executed.
C20_EndToEnd ==
    [][\A p \in ProposalIdInputs :
          /\ (/\ call'.op = "update_proposal_status"
              /\ EndToEnd(p)
              /\ Closed(p)
              /\ UpdateProposalStatus(p))
             => proposals'[p].status = "Passed"
          /\ (/\ call'.op = "execute_proposal"
              /\ EndToEnd(p)
              /\ StatusOf(p) = "Passed"
              /\ block >= proposals[p].execution_time
              /\ ExecuteProposal(p))
             => (call'.result = "Ok" /\ proposals'[p].status = "Executed")]_vars

C20_Witness ==
    /\ call.op = "execute_proposal"
    /\ call.result = "Ok"
    /\ \E p \in DOMAIN proposals : EndToEnd(p) /\ StatusOf(p) = "Executed"

\* the create_proposal message of SpecMulti with options of length n
MultiCreate(n) ==
    \E caller \in MultiVoters, title \in TitleInputs,
       description \in DescriptionInputs,
       proposal_type \in ProposalTypeInputs :
         CreateProposal(caller, title, description, proposal_type,
                        MultiGovernanceParams, VotingOptionsOfLen(n))

\* C12: create_proposal with no options or with more than 10 options fails
\* with InvalidProposal and changes nothing: no proposal is stored, nothing
\* is appended to proposal_ids and next_proposal_id does not advance; a
\* successful create_proposal returns the value of next_proposal_id, so after
\* a failed call it returns the id it would have returned without that call.
C12_InvalidCreate ==
    [][\A n \in MultiOptionLenInputs :
         (call'.op = "create_proposal" /\ MultiCreate(n)) =>
            IF n = 0 \/ n > 10
            THEN /\ call'.result = "InvalidProposal"
                 /\ UNCHANGED <<block, store>>
                 /\ events' = <<>>
            ELSE /\ call'.result = "Ok"
                 /\ call'.value = next_proposal_id
                 /\ call'.value = Len(proposal_ids) + 1]_vars

\* a failed create_proposal between the first and the second creation
C12_Witness ==
    /\ call.op = "create_proposal"
    /\ call.result = "InvalidProposal"
    /\ next_proposal_id = 2
    /\ proposal_ids = <<1>>

\* every stored proposal has one counter per option
LengthsMatch ==
    \A p \in DOMAIN proposals :
       Len(proposals[p].vote_counts) = Len(proposals[p].voting_options.options)

\* C13: create_proposal with 1 to 10 options succeeds and stores an Active
\* proposal with total_voters 0 and one zero counter per option; in every
\* reachable state every proposal has as many counters as options.
C13_ValidCreate ==
    /\ []LengthsMatch
    /\ [][\A n \in MultiOptionLenInputs :
            (call'.op = "create_proposal" /\ n >= 1 /\ n <= 10
             /\ MultiCreate(n)) =>
               /\ call'.result = "Ok"
               /\ call'.value \in DOMAIN proposals'
               /\ LET proposal == proposals'[call'.value] IN
                    /\ proposal.status = "Active"
                    /\ proposal.total_voters = 0
                    /\ Len(proposal.voting_options.options) = n
                    /\ proposal.vote_counts = [k \in 1..n |-> 0]]_vars

\* a proposal of ten options created after a proposal of one option
C13_Witness ==
    /\ call.op = "create_proposal"
    /\ call.result = "Ok"
    /\ call.value = 2
    /\ HasProposal(1) /\ HasProposal(2)
    /\ NumOptions(1) = 1
    /\ NumOptions(2) = 10
    /\ proposals[2].vote_counts = [k \in 1..10 |-> 0]

\* the fields of a proposal that a vote does not write
SameButCounts(old, new) ==
    \A f \in DOMAIN old \ {"vote_counts", "total_voters"} : new[f] = old[f]

\* C16: a successful vote(p, i) by v adds 1 to vote_counts[i] and to
\* total_voters of p, stores the Vote of (p, v) with index i, the label of
\* option i, the current height and weight 1, and changes nothing else: the
\* other counters and fields of p, the other proposals, the other votes, the
\* global total_voters, the registrations, the id counter and the id list.
C16_VoteEffect ==
    [][\A v \in MultiVoters, p \in MultiProposalIdInputs,
          i \in MultiOptionIndexInputs :
         (call'.op = "vote" /\ call'.result = "Ok" /\ Vote(v, p, i)) =>
            /\ DOMAIN proposals' = DOMAIN proposals
            /\ \A q \in DOMAIN proposals \ {p} : proposals'[q] = proposals[q]
            /\ DOMAIN proposals'[p] = DOMAIN proposals[p]
            /\ SameButCounts(proposals[p], proposals'[p])
            /\ proposals'[p].total_voters = proposals[p].total_voters + 1
            /\ Len(proposals'[p].vote_counts) = Len(proposals[p].vote_counts)
            /\ \A k \in 1..Len(proposals[p].vote_counts) :
                 proposals'[p].vote_counts[k] =
                    proposals[p].vote_counts[k] + (IF k = i + 1 THEN 1 ELSE 0)
            /\ DOMAIN votes' = DOMAIN votes \cup {<<p, v>>}
            /\ \A key \in DOMAIN votes : votes'[key] = votes[key]
            /\ votes'[<<p, v>>] =
                 [voter |-> v,
                  choice |-> [option_index |-> i,
                              option_text |->
                                 proposals[p].voting_options.options[i + 1]],
                  timestamp |-> block, weight |-> 1]
            /\ UNCHANGED <<block, next_proposal_id, proposal_ids,
                           total_voters, registered_voters>>]_vars

\* the vote for the second option of proposal 2, cast after the vote on
\* proposal 1
C16_Witness ==
    /\ call.op = "vote"
    /\ call.result = "Ok"
    /\ HasVote(1, 1) /\ HasVote(2, 1)
    /\ votes[<<2, 1>>].choice.option_index = 1
    /\ votes[<<2, 1>>].timestamp = block
    /\ votes[<<1, 1>>].timestamp < block
    /\ proposals[2].vote_counts[2] = 1

\* C19: a stored proposal stays stored, leaves Active only in a step of
\* update_proposal_status on it and becomes Executed only in a step of
\* execute_proposal on it; advancing the height, register_voter,
\* create_proposal, vote and the queries leave every status as it is.
C19_ExplicitTransitions ==
    [][\A p \in DOMAIN proposals :
         /\ p \in DOMAIN proposals'
         /\ (proposals[p].status = "Active"
             /\ proposals'[p].status # "Active")
               => call'.op = "update_proposal_status"
                  /\ UpdateProposalStatus(p)
         /\ (proposals[p].status # "Executed"
             /\ proposals'[p].status = "Executed")
               => call'.op = "execute_proposal" /\ ExecuteProposal(p)
         /\ call'.op \notin {"update_proposal_status", "execute_proposal"}
               => proposals'[p].status = proposals[p].status]_vars

\* proposal 1 is still Active after its window closed, after a vote on it
\* failed and after proposal 2 was created, closed and executed
C19_Witness ==
    /\ HasProposal(1) /\ HasProposal(2)
    /\ StatusOf(1) = "Active"
    /\ block > VotingEndOf(1)
    /\ StatusOf(2) = "Executed"
    /\ call.op = "vote"
    /\ call.result = "VotingPeriodEnded"

QueryOps ==
    {"get_proposal", "get_all_proposal_ids", "get_user_vote",
     "get_total_voters", "has_reached_quorum", "get_proposal_results",
     "get_voting_options", "get_detailed_results", "get_winning_option",
     "get_stats"}

\* the queries that answer with an Option for a proposal id
OptionQueryOps ==
    {"get_proposal", "get_proposal_results", "get_voting_options",
     "get_detailed_results", "get_winning_option"}

\* the step is the query op about proposal p
QueryAbout(op, p) ==
    CASE op = "get_proposal" -> GetProposal(p)
      [] op = "get_proposal_results" -> GetProposalResults(p)
      [] op = "get_voting_options" -> GetVotingOptions(p)
      [] op = "get_detailed_results" -> GetDetailedResults(p)
      [] op = "get_winning_option" -> GetWinningOption(p)
      [] op = "has_reached_quorum" -> HasReachedQuorum(p)
      [] OTHER -> FALSE

\* C18: a query changes neither the height nor any stored value and emits
\* nothing, whether the proposal asked about exists or not; asked about a
\* missing proposal it answers None (false for has_reached_quorum, None for
\* get_user_vote), and asked about a stored proposal get_proposal,
\* get_proposal_results and get_voting_options answer Some.
C18_QueriesReadOnly ==
    [][call'.op \in QueryOps =>
         /\ UNCHANGED <<block, store>>
         /\ events' = <<>>
         /\ call'.op = "get_all_proposal_ids" => call'.result = proposal_ids
         /\ call'.op = "get_total_voters" => call'.result = total_voters
         /\ call'.op = "get_stats" => call'.result[1] = Len(proposal_ids)
         /\ \A p \in MultiProposalIdInputs :
              /\ \A op \in OptionQueryOps :
                   (call'.op = op /\ QueryAbout(op, p)) =>
                      IF HasProposal(p)
                      THEN op \in {"get_proposal", "get_proposal_results",
                                   "get_voting_options",
                                   "get_detailed_results"}
                             => Len(call'.result) = 1
                      ELSE call'.result = None
              /\ (call'.op = "has_reached_quorum" /\ ~HasProposal(p)
                  /\ HasReachedQuorum(p)) => call'.result = FALSE
              /\ \A u \in MultiVoters :
                   (call'.op = "get_user_vote" /\ GetUserVote(p, u)) =>
                      IF HasVote(p, u)
                      THEN call'.result = Some(votes[<<p, u>>])
                      ELSE call'.result = None]_vars

\* get_proposal_results asked about the missing proposal 2
C18_Witness ==
    /\ call.op = "get_proposal_results"
    /\ call.result = None
    /\ HasProposal(1)
    /\ ~HasProposal(2)
    /\ HasVote(1, 1)

\* C14: the first successful create_proposal returns 1, every successful
\* create_proposal returns an id that is greater than every id returned
\* before and that no stored proposal has, proposal_ids never holds an id
\* twice and the proposals stored before keep their records; for every number
\* of creations, the ones at the ceiling of the id counter included.
C14_Original ==
    [][(call'.op = "create_proposal" /\ call'.result = "Ok") =>
         /\ proposal_ids = <<>> => call'.value = 1
         /\ \A k \in 1..Len(proposal_ids) : proposal_ids[k] < call'.value
         /\ call'.value \notin DOMAIN proposals
         /\ \A p \in DOMAIN proposals :
              p \in DOMAIN proposals' /\ proposals'[p] = proposals[p]
         /\ \A j, k \in 1..Len(proposal_ids') :
              proposal_ids'[j] = proposal_ids'[k] => j = k]_vars

\* voting_end is created_at plus blocks, or the ceiling when that sum is
\* above the ceiling
ClampedSum(sum, a, b) ==
    IF a > U32_MAX - b THEN sum = U32_MAX ELSE sum - a = b

\* C15: every proposal has created_at <= voting_end <= execution_time, where
\* voting_end is created_at plus the blocks of the voting period and
\* execution_time is voting_end plus the blocks of the execution delay, each
\* sum held at the ceiling of the height's width when it would pass it.
C15_TimeOrder ==
    \A p \in DOMAIN proposals :
       LET proposal == proposals[p] IN
       /\ proposal.created_at <= proposal.voting_end
       /\ proposal.voting_end <= proposal.execution_time
       /\ proposal.execution_time <= U32_MAX
       /\ ClampedSum(proposal.voting_end, proposal.created_at,
             VotingPeriod_to_blocks(proposal.governance_params.voting_period))
       /\ ClampedSum(proposal.execution_time, proposal.voting_end,
             ExecutionDelay_to_blocks(
                proposal.governance_params.execution_delay))

\* a proposal created so late that both sums are held at the ceiling, next
\* to one created at height 0
C15_Witness ==
    /\ HasProposal(1) /\ HasProposal(2)
    /\ proposals[1].created_at = 0
    /\ proposals[1].execution_time = 57600
    /\ proposals[2].created_at = U32_MAX
    /\ proposals[2].voting_end = U32_MAX
    /\ proposals[2].execution_time = U32_MAX

\* the lowest 1-based position of a count vector that holds its largest count
FirstAtMax(vc) == CHOOSE k \in AtMax(vc) : \A j \in AtMax(vc) : k <= j

\* C21: get_winning_option(p) answers None when p is missing or all its
\* counts are 0, and otherwise the label and the count of the lowest-index
\* option that holds the largest count; ties are not looked at, so a proposal
\* that a tie made Rejected still has a winner.
C21_WinningOption ==
    [][\A p \in ProposalIdInputs :
         (call'.op = "get_winning_option" /\ GetWinningOption(p)) =>
            IF ~HasProposal(p) THEN call'.result = None
            ELSE LET vc == proposals[p].vote_counts IN
                 IF MaxCount(vc) = 0 THEN call'.result = None
                 ELSE call'.result =
                        Some(<<proposals[p].voting_options.options[
                                  FirstAtMax(vc)],
                               MaxCount(vc)>>)]_vars

\* the winner reported for a proposal that a tie of its second and third
\* options made Rejected
C21_Witness ==
    /\ call.op = "get_winning_option"
    /\ call.result = Some(<<"Reject", 1>>)
    /\ HasProposal(1)
    /\ StatusOf(1) = "Rejected"
    /\ proposals[1].vote_counts = <<0, 1, 1>>

\* the fields of a proposal that a message may write after the creation
MutableFields == {"status", "vote_counts", "total_voters"}

\* C22: once a proposal is stored, its id, proposer, type, governance
\* parameters, voting options, created_at, voting_end and execution_time (and
\* its title and description) never change; only status, vote_counts and
\* total_voters do.
C22_FrozenFields ==
    [][proposals' # proposals => \A p \in DOMAIN proposals :
         /\ p \in DOMAIN proposals'
         /\ DOMAIN proposals'[p] = DOMAIN proposals[p]
         /\ proposals[p].id = p
         /\ \A f \in DOMAIN proposals[p] \ MutableFields :
              proposals'[p][f] = proposals[p][f]]_vars

\* proposal 1, voted on, closed and executed after its execution time, next to
\* a second proposal created later
C22_Witness ==
    /\ HasProposal(1) /\ HasProposal(2)
    /\ StatusOf(1) = "Executed"
    /\ proposals[1].total_voters = 1
    /\ proposals[1].created_at = 0
    /\ proposals[1].execution_time = 57600
    /\ block > proposals[1].execution_time
    /\ proposals[2].created_at > 0
    /\ StatusOf(2) # "Active"

\* C23: vote fails with the first failing check of the order
\* ProposalNotFound, ProposalNotActive, VotingPeriodEnded, AlreadyVoted,
\* InvalidProposal: on a proposal that is not Active with ProposalNotActive
\* also after voting_end; on an Active proposal after voting_end with
\* VotingPeriodEnded also for a caller who voted or an index out of range;
\* within the window, for a caller who voted, with AlreadyVoted also for an
\* index out of range.
C23_VoteErrorOrder ==
    [][call'.op = "vote" =>
       \A v \in Voters, p \in ProposalIdInputs, i \in OptionIndexInputs :
         \* Vote(v, p, i) => the result is the one of the first failing check
         \/ /\ ~HasProposal(p) => call'.result = "ProposalNotFound"
            /\ (HasProposal(p) /\ StatusOf(p) # "Active")
                  => call'.result = "ProposalNotActive"
            /\ Closed(p) => call'.result = "VotingPeriodEnded"
            /\ (HasProposal(p) /\ StatusOf(p) = "Active"
                /\ block <= VotingEndOf(p) /\ HasVote(p, v))
                  => call'.result = "AlreadyVoted"
            /\ (HasProposal(p) /\ StatusOf(p) = "Active"
                /\ block <= VotingEndOf(p) /\ ~HasVote(p, v)
                /\ i >= NumOptions(p))
                  => call'.result = "InvalidProposal"
         \/ ~Vote(v, p, i)]_vars

\* a vote on a proposal that was closed and tallied is refused for the status,
\* not for the window, although both voters have voted
C23_Witness ==
    /\ call.op = "vote"
    /\ call.result = "ProposalNotActive"
    /\ HasProposal(1)
    /\ StatusOf(1) = "Rejected"
    /\ block > VotingEndOf(1)
    /\ \A v \in Voters : HasVote(1, v)

\* the count vector has one option above every other option
SoleLeader(vc) ==
    \E k \in DOMAIN vc : \A j \in DOMAIN vc \ {k} : vc[k] > vc[j]

\* C24: every proposal that is Passed or Executed has at least one vote and
\* one option whose count is above the count of every other option.
C24_Original ==
    \A p \in DOMAIN proposals :
       StatusOf(p) \in {"Passed", "Executed"} =>
          /\ CastVotes(p) >= 1
          /\ SoleLeader(proposals[p].vote_counts)

\* the Vote records stored for proposal p
VotesOf(p) == {key \in DOMAIN votes : key[1] = p}

\* C25: for every proposal p, total_voters of p is the sum of its vote_counts
\* and the number of Vote records stored for p, every such record has an
\* option index in range, and vote_counts[i] is the number of those records
\* with option index i.
C25_CountsMatchVotes ==
    \A p \in DOMAIN proposals :
       /\ proposals[p].total_voters = Sum(proposals[p].vote_counts)
       /\ proposals[p].total_voters = Cardinality(VotesOf(p))
       /\ \A key \in VotesOf(p) :
            /\ votes[key].choice.option_index >= 0
            /\ votes[key].choice.option_index < NumOptions(p)
       /\ \A i \in 0..(NumOptions(p) - 1) :
            At(proposals[p].vote_counts, i) =
               Cardinality({key \in VotesOf(p) :
                               votes[key].choice.option_index = i})

\* two votes for different options of a proposal of three options
C25_Witness ==
    /\ HasProposal(1)
    /\ proposals[1].vote_counts = <<1, 0, 1>>
    /\ proposals[1].total_voters = 2
    /\ Cardinality(VotesOf(1)) = 2

\* the status update_proposal_status(p) would assign in this state
TallyOf(p) == tally_status(proposals[p])

\* C26 as stated: once the height has passed voting_end of an Active
\* proposal, its vote counts never change and the status that
\* update_proposal_status would assign is the same after every step.
C26_Original ==
    [][\A p \in DOMAIN proposals :
         Closed(p) =>
            /\ proposals'[p].vote_counts = proposals[p].vote_counts
            /\ proposals'[p].status = "Active" => TallyOf(p)' = TallyOf(p)]_vars

\* C26, amended: once the height has passed voting_end of an Active proposal,
\* its vote counts never change; the status that update_proposal_status would
\* assign stays the same under every step that is not a register_voter call
\* of a new identity, and such a call can only turn it from Passed into
\* Rejected; update_proposal_status assigns the status of the state it is
\* called in.
C26_ClosedOutcome ==
    [][\A p \in DOMAIN proposals :
         Closed(p) =>
            /\ proposals'[p].vote_counts = proposals[p].vote_counts
            /\ proposals'[p].status \in {"Active", TallyOf(p)}
            /\ (proposals'[p].status = "Active" /\ TallyOf(p)' # TallyOf(p))
                  => /\ call'.op = "register_voter"
                     /\ total_voters' = total_voters + 1
                     /\ TallyOf(p) = "Passed"
                     /\ TallyOf(p)' = "Rejected"]_vars

\* a registration after the close of the window has just turned the outcome
\* of proposal 1, which has a vote and no tie, from Passed into Rejected
C26_Witness ==
    /\ call.op = "register_voter"
    /\ events # <<>>
    /\ Closed(1)
    /\ CastVotes(1) >= 1
    /\ ~Tied(proposals[1].vote_counts)
    /\ TallyOf(1) = "Rejected"
    /\ CastVotes(1) >= ((total_voters - 1) * QuorumOf(1)) \div 100

\* C27: when the height keeps advancing and update_proposal_status and
\* execute_proposal keep being called, every proposal whose voting_end is
\* below the largest height leaves Active and every Passed proposal becomes
\* Executed; execute_proposal succeeds only on a Passed proposal, which it
\* makes Executed for good, so it succeeds and emits ProposalExecuted at most
\* once per proposal.
C27_Progress ==
    /\ \A p \in ProposalIdInputs :
         (HasProposal(p) /\ VotingEndOf(p) < U32_MAX)
            ~> (HasProposal(p) /\ StatusOf(p) # "Active")
    /\ \A p \in ProposalIdInputs :
         (HasProposal(p) /\ StatusOf(p) = "Passed")
            ~> (HasProposal(p) /\ StatusOf(p) = "Executed")
    /\ [][\A p \in DOMAIN proposals :
            /\ StatusOf(p) = "Executed"
                  => /\ p \in DOMAIN proposals'
                     /\ proposals'[p].status = "Executed"
                     /\ \A k \in 1..Len(events') :
                          events'[k].event = "ProposalExecuted"
                             => events'[k].proposal_id # p
            /\ (call'.op = "execute_proposal" /\ call'.result = "Ok"
                /\ ExecuteProposal(p))
                  => /\ StatusOf(p) = "Passed"
                     /\ proposals'[p].status = "Executed"
                     /\ events' = <<[event |-> "ProposalExecuted",
                                     proposal_id |-> p,
                                     status |-> "Executed"]>>]_vars

\* a second execute_proposal on the executed proposal is refused, at the
\* largest height
C27_Witness ==
    /\ call.op = "execute_proposal"
    /\ call.result = "ProposalNotReadyForExecution"
    /\ events = <<>>
    /\ HasProposal(1)
    /\ StatusOf(1) = "Executed"
    /\ proposals[1].total_voters = 1
    /\ block = U32_MAX

====
